---- MODULE Spec2Model ----
(***************************************************************************)
(* Two command-line record keepers over a two-table SQLite store:          *)
(*   src/prim/primer.py  workers(worker_name, post_id, worker_year)        *)
(*                       posts(post_id, post_title)                        *)
(*   src/ind/ind.py      trains(train_destination, type_id, train_num)     *)
(*                       types(type_id, type_title)                        *)
(* A behaviour of Spec is a session of one of the two programs: a series   *)
(* of invocations of its main(), each running to completion.  SpecConc is  *)
(* two overlapping invocations of the add command, statement by statement. *)
(***************************************************************************)
EXTENDS Integers, Sequences, FiniteSets, TLC

VARIABLES
    prog,      \* which program the session runs: "primer" or "ind"
    year_now,  \* the year the clock gave the last select query (strftime('%Y', date('now'))); 0 before any
    schema,    \* the tables of the database file, in creation order
    posts,     \* rows of table posts    (primer.py)
    workers,   \* rows of table workers  (primer.py)
    types,     \* rows of table types    (ind.py)
    trains,    \* rows of table trains   (ind.py)
    argv,      \* the command line of the last invocation
    status,    \* how the last invocation ended
    out,       \* the lines the last invocation printed on stdout
    selected,  \* the list the last invocation's read query returned (<<>> if it ran none)
    pc,        \* SpecConc: each invocation's position inside add_worker/add_train
    loc,       \* SpecConc: each invocation's arguments and locals (row, the category id)
    txn,       \* SpecConc: each connection's uncommitted rows
    lock       \* SpecConc: the connection holding the database's write lock

vars == <<prog, year_now, schema, posts, workers, types, trains,
          argv, status, out, selected, pc, loc, txn, lock>>

store == <<schema, posts, workers, types, trains>>
io    == <<argv, status, out, selected>>
conc  == <<pc, loc, txn, lock>>

----------------------------------------------------------------------------
(* Bounds of the model. *)

\* No more entity rows than this are added to a store.
MaxRows == 2

\* Python's None, and SQL NULL once bound as a parameter.
None == "<None>"

Names        == {"Ivanov", "Petrov"}
PostTitles   == {"Engineer", "Manager"}
Destinations == {"Moscow", "Kazan"}
TypeTitles   == {"Express", "express", "Local"}
\* The integers a command line of the model can spell, and a word that is none.
Numbers      == {4, 5, 6, 101, 2020, 2021}
NotANumber   == "x1"
ClockYears   == {2025, 2026}
Progs        == {"primer", "ind"}
Procs        == {1, 2}

----------------------------------------------------------------------------
(* Text: str.format as the presenter uses it. *)

Digit(d) ==
    CASE d = 0 -> "0" [] d = 1 -> "1" [] d = 2 -> "2" [] d = 3 -> "3"
      [] d = 4 -> "4" [] d = 5 -> "5" [] d = 6 -> "6" [] d = 7 -> "7"
      [] d = 8 -> "8" [] d = 9 -> "9"

RECURSIVE str(_)
\* format() of a non-negative int: its decimal digits.
str(n) == IF n < 10 THEN Digit(n) ELSE str(n \div 10) \o Digit(n % 10)

RECURSIVE rep(_, _)
\* c * n, built by halving n
rep(c, n) ==
    IF n <= 0 THEN ""
    ELSE LET half == rep(c, n \div 2)
         IN  half \o half \o (IF n % 2 = 1 THEN c ELSE "")

\* '{:<w}': pad on the right up to width w, never cut.
ljust(s, w) == s \o rep(" ", w - Len(s))
\* '{:>w}'
rjust(s, w) == rep(" ", w - Len(s)) \o s
\* '{:^w}': the left side gets the smaller half of the padding.
center(s, w) ==
    LET pad == IF w > Len(s) THEN w - Len(s) ELSE 0
    IN  rep(" ", pad \div 2) \o s \o rep(" ", pad - pad \div 2)

\* Whether int(s) succeeds: s spells an integer.
is_int(s) == \E n \in Numbers : str(n) = s
\* int(s) as argparse's type=int applies it: the integer that s spells.
int(s) == CHOOSE n \in Numbers : str(n) = s

----------------------------------------------------------------------------
(* SQL statements, as functions of the rows the connection sees. *)

\* fetchone() returning None; a result row is a non-empty tuple.
NoRow == <<>>

Max(S) == CHOOSE m \in S : \A x \in S : x <= m

\* INTEGER PRIMARY KEY AUTOINCREMENT: one more than the largest id used so far
\* (rows are never deleted, so the largest id in the table).
next_id(ids) == IF ids = {} THEN 1 ELSE Max(ids) + 1

\* Faulty variant of sql_eq: the comparison of the NOCASE collation, which
\* takes "Express" and "express" for the same title.
lower(s) == IF s = "Express" THEN "express" ELSE s
sql_eq_nocase(a, b) == a # None /\ b # None /\ lower(a) = lower(b)

\* SQL "=" on TEXT under the default BINARY collation: the same string,
\* and never true of NULL.
sql_eq(a, b) == a # None /\ b # None /\ a = b

\* cursor.fetchone() on a result set.
fetchone(rows) == IF rows = <<>> THEN NoRow ELSE rows[1]

RECURSIVE select_post_id(_, _)
\* SELECT post_id FROM posts WHERE post_title = ?
select_post_id(P, post) ==
    IF P = <<>> THEN <<>>
    ELSE (IF sql_eq(Head(P).post_title, post) THEN << <<Head(P).post_id>> >> ELSE <<>>)
         \o select_post_id(Tail(P), post)

RECURSIVE select_type_id(_, _)
\* SELECT type_id FROM types WHERE type_title = ?
select_type_id(T, typ) ==
    IF T = <<>> THEN <<>>
    ELSE (IF sql_eq(Head(T).type_title, typ) THEN << <<Head(T).type_id>> >> ELSE <<>>)
         \o select_type_id(Tail(T), typ)

\* Faulty variant of insert_post: an insert that a row with the title
\* already there turns into nothing (a conflict-aware insert).
insert_post_if_absent(P, post) ==
    IF \E i \in DOMAIN P : P[i].post_title = post
    THEN P
    ELSE Append(P, [post_id    |-> next_id({P[i].post_id : i \in DOMAIN P}),
                    post_title |-> post])

\* INSERT INTO posts (post_title) VALUES (?); post_title is NOT NULL.
insert_post_fails(post) == post = None
insert_post(P, post) ==
    Append(P, [post_id    |-> next_id({P[i].post_id : i \in DOMAIN P}),
               post_title |-> post])

\* INSERT INTO types (type_title) VALUES (?); type_title is NOT NULL.
insert_type_fails(typ) == typ = None
insert_type(T, typ) ==
    Append(T, [type_id    |-> next_id({T[i].type_id : i \in DOMAIN T}),
               type_title |-> typ])

\* Faulty variant of lastrowid_type: lastrowid read before the INSERT ran.
lastrowid_type_before(T) == IF Len(T) <= 1 THEN 0 ELSE T[Len(T) - 1].type_id

\* cursor.lastrowid after the INSERT that appended the last row of P / T.
lastrowid_post(P) == P[Len(P)].post_id
lastrowid_type(T) == T[Len(T)].type_id

\* INSERT INTO workers (worker_name, post_id, worker_year) VALUES (?, ?, ?)
insert_worker(W, name, post_id, year) ==
    Append(W, [worker_id   |-> next_id({W[i].worker_id : i \in DOMAIN W}),
               worker_name |-> name,
               post_id     |-> post_id,
               worker_year |-> year])

\* INSERT INTO trains (train_destination, type_id, train_num) VALUES (?, ?, ?)
insert_train(R, destination, type_id, num) ==
    Append(R, [train_id          |-> next_id({R[i].train_id : i \in DOMAIN R}),
               train_destination |-> destination,
               type_id           |-> type_id,
               train_num         |-> num])

----------------------------------------------------------------------------
(* create_db: CREATE TABLE IF NOT EXISTS, twice. *)

\* CREATE TABLE IF NOT EXISTS t: a table is made only when none has the name.
create_table_if_not_exists(S, t) ==
    IF \E i \in DOMAIN S : S[i] = t THEN S ELSE Append(S, t)

\* Faulty variant of create_db: the tables are dropped and made anew.
create_db_recreate(S, cats, ents, cat_table, ent_table) ==
    [schema |-> create_table_if_not_exists(
                    create_table_if_not_exists(S, cat_table), ent_table),
     cats   |-> <<>>,
     ents   |-> <<>>]

\* create_db of either program, as a function of the store: the schema it
\* leaves and the rows it leaves in the two tables it names.
create_db(S, cats, ents, cat_table, ent_table) ==
    [schema |-> create_table_if_not_exists(
                    create_table_if_not_exists(S, cat_table), ent_table),
     cats   |-> cats,
     ents   |-> ents]

create_db_primer(S, P, W) == create_db(S, P, W, "posts", "workers")
create_db_ind(S, T, R)    == create_db(S, T, R, "types", "trains")

----------------------------------------------------------------------------
(* The write path, run to completion. *)

\* Faulty variant of add_worker: the lookup's result is ignored and a posts
\* row is inserted on every add.
add_worker_always_insert(P, W, name, post, year) ==
    IF insert_post_fails(post)
    THEN [posts |-> P, workers |-> W, error |-> "IntegrityError"]
    ELSE LET P2 == insert_post(P, post)
         IN  [posts   |-> P2,
              workers |-> insert_worker(W, name, lastrowid_post(P2), year),
              error   |-> "ok"]

\* add_worker: the rows it leaves, and the exception it raises if any.  An
\* exception leaves the connection uncommitted: no row is written.
add_worker(P, W, name, post, year) ==
    LET row == fetchone(select_post_id(P, post))
    IN  IF row = NoRow /\ insert_post_fails(post)
        THEN [posts |-> P, workers |-> W, error |-> "IntegrityError"]
        ELSE LET P2      == IF row = NoRow THEN insert_post(P, post) ELSE P
                 post_id == IF row = NoRow THEN lastrowid_post(P2) ELSE row[1]
             IN  [posts   |-> P2,
                  workers |-> insert_worker(W, name, post_id, year),
                  error   |-> "ok"]

\* add_train, likewise.
add_train(T, R, destination, typ, num) ==
    LET row == fetchone(select_type_id(T, typ))
    IN  IF row = NoRow /\ insert_type_fails(typ)
        THEN [types |-> T, trains |-> R, error |-> "IntegrityError"]
        ELSE LET T2      == IF row = NoRow THEN insert_type(T, typ) ELSE T
                 type_id == IF row = NoRow THEN lastrowid_type(T2) ELSE row[1]
             IN  [types  |-> T2,
                  trains |-> insert_train(R, destination, type_id, num),
                  error  |-> "ok"]

----------------------------------------------------------------------------
(* The read paths: the joined records, in the order of the entity table. *)

RECURSIVE join_posts(_, _)
\* The posts rows joined to worker row w: ON posts.post_id = workers.post_id
join_posts(w, P) ==
    IF P = <<>> THEN <<>>
    ELSE (IF Head(P).post_id = w.post_id
          THEN <<[name |-> w.worker_name, post |-> Head(P).post_title,
                  year |-> w.worker_year]>>
          ELSE <<>>)
         \o join_posts(w, Tail(P))

RECURSIVE select_all_primer(_, _)
\* select_all of primer.py: workers INNER JOIN posts
select_all_primer(W, P) ==
    IF W = <<>> THEN <<>>
    ELSE join_posts(Head(W), P) \o select_all_primer(Tail(W), P)

RECURSIVE select_by_period_gt(_, _, _, _)
\* Faulty variant of select_by_period: > in place of >=.
select_by_period_gt(W, P, period, now) ==
    IF W = <<>> THEN <<>>
    ELSE (IF now - Head(W).worker_year > period
          THEN join_posts(Head(W), P) ELSE <<>>)
         \o select_by_period_gt(Tail(W), P, period, now)

RECURSIVE select_by_period(_, _, _, _)
\* ... WHERE (strftime('%Y', date('now')) - workers.worker_year) >= ?
select_by_period(W, P, period, now) ==
    IF W = <<>> THEN <<>>
    ELSE (IF now - Head(W).worker_year >= period
          THEN join_posts(Head(W), P) ELSE <<>>)
         \o select_by_period(Tail(W), P, period, now)

RECURSIVE join_types(_, _)
\* The types rows joined to train row r: ON types.type_id = trains.type_id
join_types(r, T) ==
    IF T = <<>> THEN <<>>
    ELSE (IF Head(T).type_id = r.type_id
          THEN <<[destination |-> r.train_destination, typ |-> Head(T).type_title,
                  num |-> r.train_num]>>
          ELSE <<>>)
         \o join_types(r, Tail(T))

RECURSIVE select_all_ind(_, _)
\* select_all of ind.py: trains INNER JOIN types
select_all_ind(R, T) ==
    IF R = <<>> THEN <<>>
    ELSE join_types(Head(R), T) \o select_all_ind(Tail(R), T)

\* The joined rows of one train that pass WHERE types.type_title = ?
where_type_title(rows, train) ==
    SelectSeq(rows, LAMBDA rec : sql_eq(rec.typ, train))

RECURSIVE select_by_type(_, _, _)
\* select_by_type: trains INNER JOIN types WHERE types.type_title = ?
select_by_type(R, T, train) ==
    IF R = <<>> THEN <<>>
    ELSE where_type_title(join_types(Head(R), T), train)
         \o select_by_type(Tail(R), T, train)

----------------------------------------------------------------------------
(* The presenter.  A printed line is [kind, cells]: kind names the print    *)
(* statement, cells are the four formatted fields, which a border joins    *)
(* with "+-", "-+-", "-+" and a header or data row with "| ", " | ", " |". *)
(* The Cyrillic header labels are written in Latin letters here.           *)

border(w1, w2, w3, w4) ==
    [kind |-> "border", cells |-> <<rep("-", w1), rep("-", w2), rep("-", w3), rep("-", w4)>>]

empty_line(text) == [kind |-> "empty", cells |-> <<text>>]

RECURSIVE worker_rows(_, _)
\* for idx, worker in enumerate(staff, 1): print(row); print(line)
worker_rows(staff, idx) ==
    IF staff = <<>> THEN <<>>
    ELSE << [kind  |-> "row",
             cells |-> <<rjust(str(idx), 4),
                         ljust(Head(staff).name, 30),
                         ljust(Head(staff).post, 20),
                         rjust(str(Head(staff).year), 8)>>],
            border(4, 30, 20, 8) >>
         \o worker_rows(Tail(staff), idx + 1)

\* Faulty variant of display_workers: no border printed under the header.
display_workers_no_sep(staff) ==
    IF staff # <<>>
    THEN << border(4, 30, 20, 8),
            [kind  |-> "header",
             cells |-> <<center("No", 4), center("F.I.O.", 30),
                         center("Dolzhnost", 20), center("God", 8)>>] >>
         \o worker_rows(staff, 1)
    ELSE << empty_line("Spisok rabotnikov pust.") >>

display_workers(staff) ==
    IF staff # <<>>
    THEN << border(4, 30, 20, 8),
            [kind  |-> "header",
             cells |-> <<center("No", 4), center("F.I.O.", 30),
                         center("Dolzhnost", 20), center("God", 8)>>],
            border(4, 30, 20, 8) >>
         \o worker_rows(staff, 1)
    ELSE << empty_line("Spisok rabotnikov pust.") >>

RECURSIVE train_rows_typ_first(_, _)
\* Faulty variant of train_rows: the type printed before the route number.
train_rows_typ_first(staff, idx) ==
    IF staff = <<>> THEN <<>>
    ELSE << [kind  |-> "row",
             cells |-> <<rjust(str(idx), 4),
                         ljust(Head(staff).destination, 30),
                         ljust(Head(staff).typ, 20),
                         rjust(str(Head(staff).num), 15)>>],
            border(4, 30, 20, 15) >>
         \o train_rows_typ_first(Tail(staff), idx + 1)

RECURSIVE train_rows(_, _)
\* for idx, train in enumerate(staff, 1): print(row); print(line)
train_rows(staff, idx) ==
    IF staff = <<>> THEN <<>>
    ELSE << [kind  |-> "row",
             cells |-> <<rjust(str(idx), 4),
                         ljust(Head(staff).destination, 30),
                         ljust(str(Head(staff).num), 20),
                         rjust(Head(staff).typ, 15)>>],
            border(4, 30, 20, 15) >>
         \o train_rows(Tail(staff), idx + 1)

display_trains(staff) ==
    IF staff # <<>>
    THEN << border(4, 30, 20, 15),
            [kind  |-> "header",
             cells |-> <<center("No", 4), center("Punkt naznacheniya", 30),
                         center("Nomer marshruta", 20), center("Tip poezda", 15)>>],
            border(4, 30, 20, 15) >>
         \o train_rows(staff, 1)
    ELSE << empty_line("Spisok poezdov pust.") >>

----------------------------------------------------------------------------
(* The command line.  argv is [command, opts]: the subcommand word (None   *)
(* when there is none) and the long flags given after it, with their words. *)

\* dest of a long flag: the flag without its dashes.
dest(flag) ==
    CASE flag = "--db" -> "db"
      [] flag = "--name" -> "name" [] flag = "--post" -> "post"
      [] flag = "--year" -> "year" [] flag = "--period" -> "period"
      [] flag = "--destination" -> "destination" [] flag = "--num" -> "num"
      [] flag = "--typ" -> "typ" [] flag = "--type" -> "type"

\* The subparsers of primer.py: per command, the flags it knows, those with
\* required=True and those with type=int.  --db comes from file_parser.
subparsers_primer ==
    [add     |-> [flags    |-> {"--db", "--name", "--post", "--year"},
                  required |-> {"--name", "--year"},
                  ints     |-> {"--year"}],
     display |-> [flags |-> {"--db"}, required |-> {}, ints |-> {}],
     select  |-> [flags    |-> {"--db", "--period"},
                  required |-> {"--period"},
                  ints     |-> {"--period"}]]

\* The subparsers of ind.py.
subparsers_ind ==
    [add     |-> [flags    |-> {"--db", "--destination", "--num", "--typ"},
                  required |-> {"--destination", "--num", "--typ"},
                  ints     |-> {"--num"}],
     display |-> [flags |-> {"--db"}, required |-> {}, ints |-> {}],
     select  |-> [flags    |-> {"--db", "--type"},
                  required |-> {"--type"},
                  ints     |-> {}]]

\* parser.parse_args: [error |-> TRUE] when argparse exits with usage text
\* (status 2), else the Namespace as a function of its attribute names.  With
\* no subcommand the Namespace holds command alone: --db belongs to the
\* subparsers only.
parse_args(subparsers, default_db, a) ==
    IF a.command = None
    THEN IF DOMAIN a.opts = {}
         THEN [error |-> FALSE, args |-> [command |-> None]]
         ELSE [error |-> TRUE]
    ELSE IF a.command \notin DOMAIN subparsers
    THEN [error |-> TRUE]
    ELSE LET sub   == subparsers[a.command]
             given == DOMAIN a.opts
         IN  IF \/ ~(given \subseteq sub.flags)
                \/ ~(sub.required \subseteq given)
                \/ \E f \in sub.ints \cap given : ~is_int(a.opts[f])
             THEN [error |-> TRUE]
             ELSE [error |-> FALSE,
                   args  |-> [attr \in {"command"} \cup {dest(f) : f \in sub.flags} |->
                        IF attr = "command" THEN a.command
                        ELSE LET f == CHOOSE g \in sub.flags : dest(g) = attr
                             IN  IF f \in given
                                 THEN (IF f \in sub.ints THEN int(a.opts[f])
                                       ELSE a.opts[f])
                                 ELSE IF f = "--db" THEN default_db ELSE None]]

parse_args_primer(a) == parse_args(subparsers_primer, "workers.db", a)
parse_args_ind(a)    == parse_args(subparsers_ind, "trains.db", a)

\* Every way of giving some of the flags of V, each with one of its words.
Opts(V) ==
    UNION { { f \in [S -> UNION {V[x] : x \in DOMAIN V}] : \A x \in S : f[x] \in V[x] }
            : S \in SUBSET DOMAIN V }

NoOpts == <<>>

\* The words the model's command lines give to the integer flags.
YearWords   == {str(2020), str(2021)}
PeriodWords == {str(4), str(5), str(6)}
NumWords    == {str(101)}

\* The command lines of the model, per program: no command, an unknown
\* command, display, every well-formed add and select, one add line with
\* any of its flags left out, and a non-integer where an integer is due.
ArgvPrimer ==
    {[command |-> None, opts |-> NoOpts], [command |-> "list", opts |-> NoOpts],
     [command |-> "display", opts |-> NoOpts]}
    \cup {[command |-> "add", opts |-> o] :
            o \in { f \in Opts([x \in {"--name", "--post", "--year"} |->
                                  CASE x = "--name" -> Names
                                    [] x = "--post" -> PostTitles
                                    [] x = "--year" -> YearWords]) :
                      {"--name", "--year"} \subseteq DOMAIN f }}
    \cup {[command |-> "add", opts |-> o] :
            o \in Opts([x \in {"--name", "--post", "--year"} |->
                          CASE x = "--name" -> {"Ivanov"}
                            [] x = "--post" -> {"Engineer"}
                            [] x = "--year" -> {str(2021), NotANumber}])}
    \cup {[command |-> "select", opts |-> o] :
            o \in Opts([x \in {"--period"} |-> PeriodWords \cup {NotANumber}])}

ArgvInd ==
    {[command |-> None, opts |-> NoOpts], [command |-> "list", opts |-> NoOpts],
     [command |-> "display", opts |-> NoOpts]}
    \cup {[command |-> "add", opts |-> o] :
            o \in { f \in Opts([x \in {"--destination", "--num", "--typ"} |->
                                  CASE x = "--destination" -> Destinations
                                    [] x = "--num" -> NumWords
                                    [] x = "--typ" -> TypeTitles]) :
                      DOMAIN f = {"--destination", "--num", "--typ"} }}
    \cup {[command |-> "add", opts |-> o] :
            o \in Opts([x \in {"--destination", "--num", "--typ", "--type"} |->
                          CASE x = "--destination" -> {"Moscow"}
                            [] x = "--num" -> {str(101), NotANumber}
                            [] x = "--typ" -> {"Express"}
                            [] x = "--type" -> {"Express"}])}
    \cup {[command |-> "select", opts |-> o] :
            o \in Opts([x \in {"--type"} |-> TypeTitles])}

----------------------------------------------------------------------------
(* main(), one invocation run to completion.  status is "ok" (exit 0),     *)
(* "usage" (argparse's exit 2 with usage text on stderr) or the name of    *)
(* the uncaught exception (traceback, exit 1).                             *)

\* main of primer.py after parse_args returned p without exiting; now is
\* the year the system clock shows during the invocation.
run_primer(p, db, now) ==
    IF "db" \notin DOMAIN p.args
    THEN /\ status' = "AttributeError" /\ out' = <<>> /\ selected' = <<>>
         /\ UNCHANGED <<year_now, schema, posts, workers>>
    ELSE /\ schema' = db.schema
         /\ year_now' = IF p.args.command = "select" THEN now ELSE year_now
         /\ IF p.args.command = "add"
            THEN LET r == add_worker(db.cats, db.ents,
                                     p.args.name, p.args.post, p.args.year)
                 IN  /\ posts' = r.posts
                     /\ workers' = r.workers
                     /\ status' = r.error
                     /\ out' = <<>>
                     /\ selected' = <<>>
            ELSE IF p.args.command = "display"
            THEN /\ posts' = db.cats
                 /\ workers' = db.ents
                 /\ status' = "ok"
                 /\ selected' = select_all_primer(db.ents, db.cats)
                 /\ out' = display_workers(selected')
            ELSE IF p.args.command = "select"
            THEN /\ posts' = db.cats
                 /\ workers' = db.ents
                 /\ status' = "ok"
                 /\ selected' = select_by_period(db.ents, db.cats, p.args.period, now)
                 /\ out' = display_workers(selected')
            ELSE /\ posts' = db.cats
                 /\ workers' = db.ents
                 /\ status' = "ok"
                 /\ out' = <<>>
                 /\ selected' = <<>>

\* main of primer.py on command line a.
main_primer(a, now) ==
    /\ prog = "primer"
    /\ a.command = "add" => Len(workers) < MaxRows
    /\ argv' = a
    /\ UNCHANGED <<prog, types, trains, conc>>
    /\ IF parse_args_primer(a).error
       THEN /\ status' = "usage" /\ out' = <<>> /\ selected' = <<>>
            /\ UNCHANGED <<year_now, schema, posts, workers>>
       ELSE run_primer(parse_args_primer(a),
                       create_db_primer(schema, posts, workers), now)

\* main of ind.py after parse_args returned p without exiting.
run_ind(p, db) ==
    IF "db" \notin DOMAIN p.args
    THEN /\ status' = "AttributeError" /\ out' = <<>> /\ selected' = <<>>
         /\ UNCHANGED <<schema, types, trains>>
    ELSE /\ schema' = db.schema
         /\ IF p.args.command = "add"
            THEN LET r == add_train(db.cats, db.ents,
                                    p.args.destination, p.args.typ, p.args.num)
                 IN  /\ types' = r.types
                     /\ trains' = r.trains
                     /\ status' = r.error
                     /\ out' = <<>>
                     /\ selected' = <<>>
            ELSE IF p.args.command = "display"
            THEN /\ types' = db.cats
                 /\ trains' = db.ents
                 /\ status' = "ok"
                 /\ selected' = select_all_ind(db.ents, db.cats)
                 /\ out' = display_trains(selected')
            ELSE IF p.args.command = "select"
            THEN /\ types' = db.cats
                 /\ trains' = db.ents
                 /\ status' = "ok"
                 /\ selected' = select_by_type(db.ents, db.cats, p.args.type)
                 /\ out' = display_trains(selected')
            ELSE /\ types' = db.cats
                 /\ trains' = db.ents
                 /\ status' = "ok"
                 /\ out' = <<>>
                 /\ selected' = <<>>

\* main of ind.py on command line a.
main_ind(a) ==
    /\ prog = "ind"
    /\ a.command = "add" => Len(trains) < MaxRows
    /\ argv' = a
    /\ UNCHANGED <<prog, year_now, posts, workers, conc>>
    /\ IF parse_args_ind(a).error
       THEN /\ status' = "usage" /\ out' = <<>> /\ selected' = <<>>
            /\ UNCHANGED <<schema, types, trains>>
       ELSE run_ind(parse_args_ind(a), create_db_ind(schema, types, trains))

\* Before the first invocation: a fresh storage file, nothing run yet.
NoArgv == [command |-> None, opts |-> NoOpts]

\* The years the clock may show to invocation a: only select reads it.
ClockReads(a) == IF a.command = "select" THEN ClockYears ELSE {year_now}

InitStore ==
    /\ prog \in Progs
    /\ year_now = 0
    /\ schema = <<>>
    /\ posts = <<>> /\ workers = <<>>
    /\ types = <<>> /\ trains = <<>>
    /\ argv = NoArgv
    /\ status = "init"
    /\ out = <<>>
    /\ selected = <<>>

Init ==
    /\ InitStore
    /\ pc = [p \in Procs |-> "idle"]
    /\ loc = [p \in Procs |-> <<>>]
    /\ txn = [p \in Procs |-> <<>>]
    /\ lock = 0

Next ==
    \/ \E a \in ArgvPrimer : \E now \in ClockReads(a) : main_primer(a, now)
    \/ \E a \in ArgvInd : main_ind(a)

Spec == Init /\ [][Next]_vars

----------------------------------------------------------------------------
(* Two overlapping add invocations, one statement at a time.  Each has its *)
(* own connection.  A connection reads the committed rows and its own      *)
(* uncommitted ones; its first INSERT opens a transaction and takes the    *)
(* database's write lock, which commit() releases; an INSERT that finds    *)
(* the lock held by the other connection waits for it and, once the        *)
(* connection's timeout has passed, raises "database is locked".           *)

\* The statements of add_worker / add_train, by the program that runs.
select_cat_id(C, title) ==
    IF prog = "primer" THEN select_post_id(C, title) ELSE select_type_id(C, title)
insert_cat(C, title) ==
    IF prog = "primer" THEN insert_post(C, title) ELSE insert_type(C, title)
lastrowid_cat(C) ==
    IF prog = "primer" THEN lastrowid_post(C) ELSE lastrowid_type(C)
insert_ent(E, a, cat_id, n) ==
    IF prog = "primer" THEN insert_worker(E, a, cat_id, n) ELSE insert_train(E, a, cat_id, n)

\* The committed rows of the running program's two tables.
cats == IF prog = "primer" THEN posts ELSE types
ents == IF prog = "primer" THEN workers ELSE trains

\* The names create_db gives the two tables.
CatTable == IF prog = "primer" THEN "posts" ELSE "types"
EntTable == IF prog = "primer" THEN "workers" ELSE "trains"

\* The arguments main hands to add_worker / add_train.
AddArgs ==
    IF prog = "primer"
    THEN {[a |-> name, title |-> post, n |-> 2021] : name \in Names, post \in PostTitles}
    ELSE {[a |-> d, title |-> typ, n |-> 101] : d \in Destinations, typ \in TypeTitles}

\* main up to the call of add_*: the arguments are parsed, create_db has run.
Start(p, args) ==
    /\ pc[p] = "idle"
    /\ schema' = create_db(schema, cats, ents, CatTable, EntTable).schema
    /\ loc' = [loc EXCEPT ![p] = [a |-> args.a, title |-> args.title, n |-> args.n,
                                  row |-> NoRow, cat_id |-> 0]]
    /\ txn' = [txn EXCEPT ![p] = [cats |-> <<>>, ents |-> <<>>]]
    /\ pc' = [pc EXCEPT ![p] = "select"]
    /\ UNCHANGED <<prog, year_now, posts, workers, types, trains, io, lock>>

\* SELECT ... WHERE title = ?; row = cursor.fetchone(); the else branch
\* takes the identifier from the row.
Select(p) ==
    /\ pc[p] = "select"
    /\ LET row == fetchone(select_cat_id(cats \o txn[p].cats, loc[p].title))
       IN  /\ loc' = [loc EXCEPT ![p].row = row,
                                 ![p].cat_id = IF row = NoRow THEN 0 ELSE row[1]]
           /\ pc' = [pc EXCEPT ![p] = IF row = NoRow THEN "insert_cat" ELSE "insert_ent"]
    /\ UNCHANGED <<prog, year_now, store, io, txn, lock>>

\* if row is None: INSERT the category row; the identifier is cursor.lastrowid.
InsertCat(p) ==
    /\ pc[p] = "insert_cat"
    /\ lock \in {0, p}
    /\ lock' = p
    /\ LET seen == insert_cat(cats \o txn[p].cats, loc[p].title)
       IN  /\ txn' = [txn EXCEPT ![p].cats = SubSeq(seen, Len(cats) + 1, Len(seen))]
           /\ loc' = [loc EXCEPT ![p].cat_id = lastrowid_cat(seen)]
    /\ pc' = [pc EXCEPT ![p] = "insert_ent"]
    /\ UNCHANGED <<prog, year_now, store, io>>

\* INSERT the entity row with the identifier.
InsertEnt(p) ==
    /\ pc[p] = "insert_ent"
    /\ lock \in {0, p}
    /\ lock' = p
    /\ LET seen == insert_ent(ents \o txn[p].ents, loc[p].a, loc[p].cat_id, loc[p].n)
       IN  txn' = [txn EXCEPT ![p].ents = SubSeq(seen, Len(ents) + 1, Len(seen))]
    /\ pc' = [pc EXCEPT ![p] = "commit"]
    /\ UNCHANGED <<prog, year_now, store, io, loc>>

\* conn.commit(); conn.close()
Commit(p) ==
    /\ pc[p] = "commit"
    /\ lock = p
    /\ lock' = 0
    /\ IF prog = "primer"
       THEN /\ posts' = posts \o txn[p].cats
            /\ workers' = workers \o txn[p].ents
            /\ UNCHANGED <<types, trains>>
       ELSE /\ types' = types \o txn[p].cats
            /\ trains' = trains \o txn[p].ents
            /\ UNCHANGED <<posts, workers>>
    /\ txn' = [txn EXCEPT ![p] = [cats |-> <<>>, ents |-> <<>>]]
    /\ pc' = [pc EXCEPT ![p] = "done"]
    /\ UNCHANGED <<prog, year_now, schema, io, loc>>

\* An INSERT that waited for the other connection's lock until the timeout:
\* sqlite3.OperationalError, uncaught; nothing of this connection is written.
Locked(p) ==
    /\ pc[p] \in {"insert_cat", "insert_ent"}
    /\ lock \notin {0, p}
    /\ pc' = [pc EXCEPT ![p] = "OperationalError"]
    /\ UNCHANGED <<prog, year_now, store, io, loc, txn, lock>>

NextConc ==
    \E p \in Procs :
        \/ \E args \in AddArgs : Start(p, args)
        \/ Select(p)
        \/ InsertCat(p)
        \/ InsertEnt(p)
        \/ Commit(p)
        \/ Locked(p)

SpecConc == Init /\ [][NextConc]_vars

----------------------------------------------------------------------------
(* Properties.  The helpers read the running program's two tables.         *)

cat_id(c)    == IF prog = "primer" THEN c.post_id ELSE c.type_id
cat_title(c) == IF prog = "primer" THEN c.post_title ELSE c.type_title
ent_cat(e)   == IF prog = "primer" THEN e.post_id ELSE e.type_id

\* The category title an add command line gives.
AddTitle(a) == IF prog = "primer" THEN a.opts["--post"] ELSE a.opts["--typ"]

IsPrefix(s, t) == Len(s) <= Len(t) /\ SubSeq(t, 1, Len(s)) = s

Range(s) == {s[i] : i \in DOMAIN s}
Count(s, x) == Cardinality({i \in DOMAIN s : s[i] = x})
\* The same elements, each as many times, in any order.
SameBag(s, t) ==
    /\ Len(s) = Len(t)
    /\ \A x \in Range(s) \cup Range(t) : Count(s, x) = Count(t, x)

\* The rows of C titled t.
Titled(C, t) == {i \in DOMAIN C : cat_title(C[i]) = t}

\* The last invocation ran command c to its end without an error.
Ran(c) == argv.command = c /\ status = "ok"

\* The kinds of the printed lines, and the cells of the data rows.
Kinds(lines) == [i \in DOMAIN lines |-> lines[i].kind]
RowCells(lines) ==
    LET rows == SelectSeq(lines, LAMBDA l : l.kind = "row")
    IN  [i \in DOMAIN rows |-> rows[i].cells]

(* C1: in a run of add commands one after another on a store that starts   *)
(* empty, each accepted add appends exactly one entity row; if a category   *)
(* row with exactly the given title exists it appends no category row and  *)
(* the new entity row carries that row's identifier, otherwise it appends   *)
(* one category row with the title and the entity row carries its          *)
(* identifier; so no two category rows ever share a title.                  *)
C1_AddStep ==
    (argv'.command = "add" /\ status' = "ok") =>
        LET t   == AddTitle(argv')
            old == Titled(cats, t)
            new == ents'[Len(ents')]
        IN  /\ Len(ents') = Len(ents) + 1
            /\ IsPrefix(ents, ents')
            /\ IF old # {}
               THEN /\ cats' = cats
                    /\ \E i \in old : ent_cat(new) = cat_id(cats[i])
               ELSE /\ Len(cats') = Len(cats) + 1
                    /\ IsPrefix(cats, cats')
                    /\ cat_title(cats'[Len(cats')]) = t
                    /\ ent_cat(new) = cat_id(cats'[Len(cats')])

C1_UniqueTitles ==
    \A i, j \in DOMAIN cats : cat_title(cats[i]) = cat_title(cats[j]) => i = j

C1_AddOnce == [][C1_AddStep]_vars /\ []C1_UniqueTitles

\* Two workers added with post "Engineer": one posts row, both reference it.
C1_Witness ==
    /\ prog = "primer" /\ Ran("add")
    /\ argv.opts["--post"] = "Engineer"
    /\ Len(workers) = 2
    /\ Cardinality(Titled(posts, "Engineer")) = 1
    /\ \A i \in DOMAIN workers :
          \E j \in Titled(posts, "Engineer") : workers[i].post_id = posts[j].post_id

(* C2: in every state reached by add, display and select commands, every   *)
(* entity row's category identifier is the identifier of a category row,   *)
(* and no invocation changes or removes a row that was there before it.    *)
C2_RefIntegrity ==
    \A i \in DOMAIN ents : \E j \in DOMAIN cats : cat_id(cats[j]) = ent_cat(ents[i])

C2_RowsKept == IsPrefix(cats, cats') /\ IsPrefix(ents, ents')

C2_References == []C2_RefIntegrity /\ [][C2_RowsKept]_vars

\* After a select, a store of two entity rows under two different categories.
C2_Witness ==
    /\ Ran("select")
    /\ Len(ents) = 2 /\ Len(cats) = 2
    /\ ent_cat(ents[1]) # ent_cat(ents[2])

(* C3: the worker select with period p returns exactly the stored workers  *)
(* with year_now - worker_year >= p, each with the title of its post; a    *)
(* worker hired in year_now - 5 is returned for p = 4 and p = 5 and not    *)
(* for p = 6.                                                               *)
PostTitleOf(w) ==
    posts[CHOOSE j \in DOMAIN posts : posts[j].post_id = w.post_id].post_title

JoinedWorker(w) ==
    [name |-> w.worker_name, post |-> PostTitleOf(w), year |-> w.worker_year]

TypeTitleOf(r) ==
    types[CHOOSE j \in DOMAIN types : types[j].type_id = r.type_id].type_title

JoinedTrain(r) ==
    [destination |-> r.train_destination, typ |-> TypeTitleOf(r), num |-> r.train_num]

C4_Select ==
    (prog = "ind" /\ Ran("select")) =>
        LET T    == argv.opts["--type"]
            same == SelectSeq(trains, LAMBDA r : TypeTitleOf(r) = T)
        IN  /\ SameBag(selected, [i \in DOMAIN same |-> JoinedTrain(same[i])])
            /\ \A i \in DOMAIN trains :
                  TypeTitleOf(trains[i]) = "Express" =>
                      /\ T = "Express" => JoinedTrain(trains[i]) \in Range(selected)
                      /\ T \in {"Local", "express"} =>
                             JoinedTrain(trains[i]) \notin Range(selected)

C4_AddStep ==
    (prog = "ind" /\ argv'.command = "add" /\ status' = "ok") =>
        \E j \in DOMAIN types' :
            /\ types'[j].type_id = trains'[Len(trains')].type_id
            /\ types'[j].type_title = argv'.opts["--typ"]

C4_SelectByType == []C4_Select /\ [][C4_AddStep]_vars

\* select --type express on a store holding an "Express" and an "express"
\* train returned the one train of type "express".
C4_Witness ==
    /\ prog = "ind" /\ Ran("select")
    /\ argv.opts["--type"] = "express"
    /\ Len(trains) = 2
    /\ {TypeTitleOf(trains[i]) : i \in DOMAIN trains} = {"Express", "express"}
    /\ Len(selected) = 1 /\ selected[1].typ = "express"

\* The last invocation presented a list of two records.
PresentedTwo == argv.command \in {"display", "select"} /\ status = "ok" /\ Len(selected) = 2

TwoRecordLayout ==
    Kinds(out) = <<"border", "header", "border", "row", "border", "row", "border">>

(* C5, as stated: presenting two records prints a border, the header, a    *)
(* border, then each of the two data rows followed by a border: five       *)
(* border lines in all.                                                     *)
C5_FiveBorders ==
    PresentedTwo => /\ TwoRecordLayout
                    /\ Count(Kinds(out), "border") = 5

(* C5, amended: presenting two records prints a border, the header, a      *)
(* border, then each of the two data rows followed by a border: four       *)
(* border lines in all, every one the same line.                            *)
C5_FourBorders ==
    PresentedTwo => /\ TwoRecordLayout
                    /\ Count(Kinds(out), "border") = 4
                    /\ \A i \in {3, 5, 7} : out[i] = out[1]

C5_Witness == PresentedTwo /\ Len(out) = 7

\* add --destination Moscow --type Express --num 101, and the same line
\* with the flag spelled --typ.
AddMoscowType ==
    [command |-> "add",
     opts |-> ("--destination" :> "Moscow") @@ ("--type" :> "Express") @@ ("--num" :> str(101))]
AddMoscowTyp ==
    [command |-> "add",
     opts |-> ("--destination" :> "Moscow") @@ ("--typ" :> "Express") @@ ("--num" :> str(101))]

\* A train store holding the one train Moscow / Express / 101.
OneMoscowTrain ==
    /\ prog = "ind"
    /\ Len(trains) = 1 /\ Len(types) = 1
    /\ trains[1].train_destination = "Moscow" /\ trains[1].train_num = 101
    /\ types[1].type_title = "Express" /\ trains[1].type_id = types[1].type_id

(* C6, as stated: on a train store, add --destination Moscow --type        *)
(* Express --num 101 is accepted and stores a train, and display of the    *)
(* store holding that one train prints one data row with the cells, left   *)
(* to right, 1, Moscow, Express, 101.                                       *)
C6_TypeFlagTypeThird ==
    /\ (prog = "ind" /\ status # "init" /\ argv = AddMoscowType) =>
           (status = "ok" /\ Len(trains) >= 1)
    /\ (OneMoscowTrain /\ Ran("display")) =>
           RowCells(out) = << <<rjust(str(1), 4), ljust("Moscow", 30),
                                ljust("Express", 20), rjust(str(101), 15)>> >>

(* C6, amended: on a fresh train store, add --destination Moscow --typ     *)
(* Express --num 101 is accepted and stores that one train, and a display  *)
(* that follows prints exactly one data row with the cells, left to right, *)
(* row number 1, destination Moscow, route number 101, type Express.       *)
C6_AddStep ==
    (prog = "ind" /\ trains = <<>> /\ types = <<>> /\ argv' = AddMoscowTyp) =>
        (status' = "ok" /\ OneMoscowTrain')

C6_DisplayStep ==
    (OneMoscowTrain /\ argv = AddMoscowTyp /\ status = "ok" /\ argv'.command = "display") =>
        /\ status' = "ok"
        /\ RowCells(out') = << <<rjust(str(1), 4), ljust("Moscow", 30),
                                 ljust(str(101), 20), rjust("Express", 15)>> >>
        /\ Count(Kinds(out'), "row") = 1

C6_TypFlagNumThird == [][C6_AddStep]_vars /\ [][C6_DisplayStep]_vars

C6_Witness ==
    /\ OneMoscowTrain /\ Ran("display")
    /\ RowCells(out) = << <<rjust(str(1), 4), ljust("Moscow", 30),
                            ljust(str(101), 20), rjust("Express", 15)>> >>

\* The schema holds table t exactly once.
HasTableOnce(S, t) == Cardinality({i \in DOMAIN S : S[i] = t}) = 1

(* C7: an invocation with no command runs the schema initializer, matches  *)
(* no command and returns normally, printing nothing.                       *)
C7_NoCommandReturns ==
    (status # "init" /\ argv.command = None) =>
        /\ status = "ok"
        /\ out = <<>>
        /\ HasTableOnce(schema, CatTable) /\ HasTableOnce(schema, EntTable)

(* C8: the worker tool's add without the post flag is rejected by the      *)
(* argument parser as a usage error.                                        *)
C8_PostRequired ==
    (prog = "primer" /\ status # "init" /\ argv.command = "add"
        /\ "--post" \notin DOMAIN argv.opts) =>
        status = "usage"

(* C9: create_db applied to any reachable store leaves every row as it     *)
(* was and each of its two tables exactly once, and applying it again      *)
(* changes nothing; every invocation that gets past the parser has run it, *)
(* keeps the rows written before it, and a display returns all of them.    *)
C9_Idempotent ==
    LET once  == create_db(schema, cats, ents, CatTable, EntTable)
        twice == create_db(once.schema, once.cats, once.ents, CatTable, EntTable)
    IN  /\ once.cats = cats /\ once.ents = ents
        /\ HasTableOnce(once.schema, CatTable) /\ HasTableOnce(once.schema, EntTable)
        /\ IsPrefix(schema, once.schema)
        /\ twice = once

C9_Step ==
    (status' \in {"ok", "IntegrityError"}) =>
        /\ HasTableOnce(schema', CatTable) /\ HasTableOnce(schema', EntTable)
        /\ IsPrefix(cats, cats') /\ IsPrefix(ents, ents')
        /\ argv'.command = "display" =>
               (cats' = cats /\ ents' = ents /\ Len(selected') = Len(ents))

C9_CreateDb == []C9_Idempotent /\ [][C9_Step]_vars

\* A display that showed the two rows earlier invocations wrote.
C9_Witness ==
    /\ Ran("display") /\ Len(ents) = 2 /\ Len(selected) = 2
    /\ Len(schema) = 2

(* C10: when two overlapping add invocations given the same title have     *)
(* both committed, the store holds as many category rows with that title   *)
(* as there were lookups that found none (the store started empty), so two *)
(* when both lookups ran before either commit; each of the two new entity  *)
(* rows carries the identifier of one of these rows, and when both lookups *)
(* found none the two entity rows carry different identifiers.             *)
BothDone == \A p \in Procs : pc[p] = "done"

C10_LookupThenInsertRace ==
    (BothDone /\ loc[1].title = loc[2].title) =>
        LET t      == loc[1].title
            missed == {p \in Procs : loc[p].row = NoRow}
        IN  /\ Cardinality(Titled(cats, t)) = Cardinality(missed)
            /\ Len(ents) = 2
            /\ \A i \in DOMAIN ents : \E j \in Titled(cats, t) : ent_cat(ents[i]) = cat_id(cats[j])
            /\ missed = Procs => ent_cat(ents[1]) # ent_cat(ents[2])

\* Both lookups found no row, both inserted one: two rows with one title.
C10_Witness ==
    /\ BothDone /\ loc[1].title = loc[2].title
    /\ \A p \in Procs : loc[p].row = NoRow
    /\ Len(cats) = 2 /\ cat_title(cats[1]) = cat_title(cats[2])
    /\ cat_id(cats[1]) # cat_id(cats[2])
    /\ {ent_cat(ents[i]) : i \in DOMAIN ents} = {cat_id(cats[1]), cat_id(cats[2])}

====
